---- MODULE Spec2Model ----
(***************************************************************************)
(* Resume graph search: main4.py (base) and with_word_search_only.py       *)
(* (word-search variant).  One Streamlit session at a time drives a script *)
(* run: Clear button, upload loop, search, and (variant) summaries.  The   *)
(* Neo4j store is a set of nodes and a set of relationships; py2neo's      *)
(* merge is match-or-create on (label, key property).                      *)
(*                                                                         *)
(* Strings that the code inspects (names, skills, the typed search text)   *)
(* are sequences of one-character strings, so lower(), strip() and         *)
(* split(",") are computed.  Resume texts are opaque and only hashed.      *)
(***************************************************************************)
EXTENDS Integers, Sequences, FiniteSets, TLC

VARIABLES variant, graph, processed_files, uploaded_files, pc, idx, cleared,
          lastEvent, user_input, skill_query, results, sidx, outputs

vars == <<variant, graph, processed_files, uploaded_files, pc, idx, cleared,
          lastEvent, user_input, skill_query, results, sidx, outputs>>

\* ------------------------------------------------------------ bounds
\* Largest number of files held by the uploader widget at once.
MaxUploaded == 2

\* ------------------------------------------------------------ strings
Range(s) == {s[i] : i \in 1..Len(s)}

\* Fault: lower() that leaves the case as it is.
LowerCharId(c) == c

\* str.lower() on one character (the letters the model uses).
LowerChar(c) ==
  CASE c = "A" -> "a" [] c = "B" -> "b" [] c = "D" -> "d" [] c = "L" -> "l"
    [] c = "O" -> "o" [] c = "P" -> "p" [] c = "Q" -> "q" [] c = "S" -> "s"
    [] c = "U" -> "u" [] c = "W" -> "w" [] c = "Y" -> "y"
    [] OTHER -> c

\* str.lower(): character by character.
Lower(s) == [i \in 1..Len(s) |-> LowerChar(s[i])]

UpperChars == {"A", "B", "D", "L", "O", "P", "Q", "S", "U", "W", "Y"}

IsLower(s) == \A i \in 1..Len(s) : s[i] \notin UpperChars

IsSpace(c) == c = " "

\* str.strip(): drop leading and trailing whitespace.
RECURSIVE LStrip(_)
LStrip(s) == IF s # <<>> /\ IsSpace(Head(s)) THEN LStrip(Tail(s)) ELSE s

RECURSIVE RStrip(_)
RStrip(s) ==
  IF s # <<>> /\ IsSpace(s[Len(s)]) THEN RStrip(SubSeq(s, 1, Len(s) - 1)) ELSE s

Strip(s) == RStrip(LStrip(s))

\* str.split(","): the pieces between commas, empty pieces kept.
RECURSIVE SplitAcc(_, _, _)
SplitAcc(s, cur, acc) ==
  IF s = <<>> THEN Append(acc, cur)
  ELSE IF Head(s) = "," THEN SplitAcc(Tail(s), <<>>, Append(acc, cur))
  ELSE SplitAcc(Tail(s), Append(cur, Head(s)), acc)

Split(s) == SplitAcc(s, <<>>, <<>>)

\* [s.lower() for s in xs]
RECURSIVE MapLower(_)
MapLower(xs) ==
  IF xs = <<>> THEN <<>> ELSE <<Lower(Head(xs))>> \o MapLower(Tail(xs))

Unknown == <<"U", "n", "k", "n", "o", "w", "n">>

\* ------------------------------------------------------------ hashing
\* get_pdf_hash: md5 hex digest of the UTF-8 text (digests of the modelled texts).
Texts == {"resume A", "resume B"}

get_pdf_hash(text) ==
  CASE text = "resume A" -> "93eaede985ee6d1127528750f6e0060c"
    [] text = "resume B" -> "b96ca4074abe773b25d2a2728b6ac440"

\* ------------------------------------------------------------ the store
\* A node: label, properties (name; content and content_hash on Candidate
\* nodes, "" where the node has no such property) and copy, which tells apart
\* nodes that agree on label and key (the store's internal identity).
Labels == <<"Skill", "Education", "Project", "Experience", "Certification">>
Rels == <<"HAS_SKILL", "HAS_EDUCATION", "HAS_PROJECT", "HAS_EXPERIENCE",
          "HAS_CERTIFICATION">>
Fields == <<"skills", "education", "projects", "experience", "certifications">>

EmptyGraph == [nodes |-> {}, edges |-> {}]

Candidates(g) == {n \in g.nodes : n.label = "Candidate"}

NodeId(n) ==
  IF n.label = "Candidate" THEN <<n.label, n.content_hash, <<>>, n.copy>>
  ELSE <<n.label, "", n.name, n.copy>>

\* clear_neo4j_database: MATCH (n) DETACH DELETE n
clear_neo4j_database(g) == EmptyGraph

FreshCopy(S) == CHOOSE k \in 0..Cardinality(S) : \A n \in S : n.copy # k

\* graph.merge(candidate, "Candidate", "content_hash"): match on content_hash,
\* create when there is no match; the node's properties are set either way.
\* Returns the store and the identity the local node is bound to.
\* Fault: CREATE in place of MERGE.
CreateCandidate(g, name, content, content_hash) ==
  LET same == {n \in Candidates(g) : n.content_hash = content_hash}
      new == [label |-> "Candidate", name |-> name, content |-> content,
              content_hash |-> content_hash, copy |-> FreshCopy(same)]
  IN [g |-> [g EXCEPT !.nodes = @ \cup {new}], id |-> NodeId(new)]

MergeCandidate(g, name, content, content_hash) ==
  LET same == {n \in Candidates(g) : n.content_hash = content_hash}
      new == [label |-> "Candidate", name |-> name, content |-> content,
              content_hash |-> content_hash, copy |-> 0]
      upd(n) == [n EXCEPT !.name = name, !.content = content]
  IN IF same = {}
     THEN [g |-> [g EXCEPT !.nodes = @ \cup {new}], id |-> NodeId(new)]
     ELSE [g |-> [g EXCEPT !.nodes = (@ \ same) \cup {upd(n) : n \in same}],
           id |-> NodeId(CHOOSE n \in same : \A m \in same : n.copy <= m.copy)]

\* graph.merge(node, label, "name"): match on (label, name), else create.
\* Fault: CREATE in place of MERGE.
CreateNode(g, label, name) ==
  LET same == {n \in g.nodes : n.label = label /\ n.name = name}
      new == [label |-> label, name |-> name, content |-> "",
              content_hash |-> "", copy |-> FreshCopy(same)]
  IN [g |-> [g EXCEPT !.nodes = @ \cup {new}], id |-> NodeId(new)]

MergeNode(g, label, name) ==
  LET same == {n \in g.nodes : n.label = label /\ n.name = name}
      new == [label |-> label, name |-> name, content |-> "",
              content_hash |-> "", copy |-> 0]
  IN IF same = {}
     THEN [g |-> [g EXCEPT !.nodes = @ \cup {new}], id |-> NodeId(new)]
     ELSE [g |-> g,
           id |-> NodeId(CHOOSE n \in same : \A m \in same : n.copy <= m.copy)]

\* graph.merge(Relationship(candidate, rel, node)): match on start node, type
\* and end node, else create.
\* Fault: CREATE in place of MERGE.
CreateRelationship(g, src, rel, dst) ==
  LET same == {e \in g.edges : e.src = src /\ e.rel = rel /\ e.dst = dst}
  IN [g EXCEPT !.edges = @ \cup
        {[src |-> src, rel |-> rel, dst |-> dst, copy |-> FreshCopy(same)]}]

MergeRelationship(g, src, rel, dst) ==
  LET same == {e \in g.edges : e.src = src /\ e.rel = rel /\ e.dst = dst}
  IN IF same = {}
     THEN [g EXCEPT !.edges = @ \cup
             {[src |-> src, rel |-> rel, dst |-> dst, copy |-> 0]}]
     ELSE g

NodeOf(g, id) == CHOOSE n \in g.nodes : NodeId(n) = id

\* ------------------------------------------------------------ the oracle
\* A parsed JSON object: each of the six fields is <<>> when the key is absent
\* and <<value>> when present; extra tells whether the object holds other keys.
Dict(name, skills, education, projects, experience, certifications, extra) ==
  [name |-> name, skills |-> skills, education |-> education,
   projects |-> projects, experience |-> experience,
   certifications |-> certifications, extra |-> extra]

\* {}
EmptyDict == Dict(<<>>, <<>>, <<>>, <<>>, <<>>, <<>>, FALSE)

\* dict.get(key, default)
Get(d, key, default) == IF d[key] = <<>> THEN default ELSE d[key][1]

Al == <<"A", "l">>
Py == <<"P", "y">>
py == <<"p", "y">>
Sq == <<"S", "q">>
Bs == <<"B", "s">>
Dv == <<"D", "v">>
Aw == <<"A", "w">>

\* What the LLM call can produce: an exception, text that is not JSON, or a
\* JSON object holding any subset of the six fields.
OracleObjects ==
  { EmptyDict,
    Dict(<<>>, <<>>, <<>>, <<>>, <<>>, <<>>, TRUE),
    Dict(<<Al>>, <<<<Py, Sq, Py>>>>, <<>>, <<>>, <<<<Dv>>>>, <<>>, FALSE),
    Dict(<<>>, <<<<py>>>>, <<<<Bs>>>>, <<<<py>>>>, <<<<>>>>, <<<<Aw>>>>, TRUE) }

OracleResponses ==
  {[kind |-> "raise", obj |-> EmptyDict], [kind |-> "notjson", obj |-> EmptyDict]}
    \cup {[kind |-> "json", obj |-> o] : o \in OracleObjects}

\* get_structured_data_from_llm: json.loads of the response; {} on any exception.
\* The variant rebuilds the dict with every string lower-cased.
get_structured_data_from_llm(v, resp) ==
  IF resp.kind # "json" THEN EmptyDict
  ELSE IF v = "main4" THEN resp.obj
  ELSE Dict(<<Lower(Get(resp.obj, "name", Unknown))>>,
            <<MapLower(Get(resp.obj, "skills", <<>>))>>,
            <<MapLower(Get(resp.obj, "education", <<>>))>>,
            <<MapLower(Get(resp.obj, "projects", <<>>))>>,
            <<MapLower(Get(resp.obj, "experience", <<>>))>>,
            <<MapLower(Get(resp.obj, "certifications", <<>>))>>,
            FALSE)

\* Fault: the test left out.
TruthyAlways(d) == TRUE

\* `if structured_data:` a dict is true unless it is empty.
Truthy(d) ==
  \/ d.extra
  \/ d.name # <<>>
  \/ \E i \in 1..Len(Fields) : d[Fields[i]] # <<>>

\* ------------------------------------------------------------ upsert
\* The variant lower-cases the name and every item once more before writing.
Norm(v, s) == IF v = "main4" THEN s ELSE Lower(s)

\* for item in items: merge the attribute node, then the relationship.
RECURSIVE AddItems(_, _, _, _, _, _)
AddItems(v, g, cand, label, rel, items) ==
  IF items = <<>> THEN g
  ELSE LET m == MergeNode(g, label, Norm(v, Head(items)))
           g2 == MergeRelationship(m.g, cand, rel, m.id)
       IN AddItems(v, g2, cand, label, rel, Tail(items))

\* for label, rel, items in [...]: the five categories in order.
RECURSIVE AddCategories(_, _, _, _, _)
AddCategories(v, g, cand, data, i) ==
  IF i > Len(Labels) THEN g
  ELSE AddCategories(v,
         AddItems(v, g, cand, Labels[i], Rels[i], Get(data, Fields[i], <<>>)),
         cand, data, i + 1)

add_candidate_to_neo4j(v, g, data, resume_text) ==
  LET name == Norm(v, Get(data, "name", Unknown))
      m == MergeCandidate(g, name, resume_text, get_pdf_hash(resume_text))
  IN AddCategories(v, m.g, m.id, data, 1)

\* ------------------------------------------------------------ search
\* Every enumeration of a finite set (the store returns rows in some order).
Perms(S) ==
  {s \in [1..Cardinality(S) -> S] : \A i, j \in 1..Cardinality(S) : s[i] = s[j] => i = j}

Row(c) == [name |-> c.name, content |-> c.content]

SkillsOf(g, c) ==
  {s \in g.nodes : s.label = "Skill" /\
     \E e \in g.edges : e.src = NodeId(c) /\ e.rel = "HAS_SKILL" /\ e.dst = NodeId(s)}

\* main4: MATCH (c:Candidate)-[r:HAS_SKILL]->(s:Skill {name: $skill})
\*        RETURN c.name, c.content      one row per matching path.
BasePaths(g, skill) ==
  {p \in Candidates(g) \X g.edges :
     /\ p[2].src = NodeId(p[1]) /\ p[2].rel = "HAS_SKILL"
     /\ \E s \in g.nodes : s.label = "Skill" /\ s.name = skill /\ p[2].dst = NodeId(s)}

BaseResults(g, skill) ==
  {[i \in 1..Len(ps) |-> Row(ps[i][1])] : ps \in Perms(BasePaths(g, skill))}

\* variant: WHERE s.name IN $skills WITH c, COUNT(DISTINCT s.name) AS matchedSkills
\*          WHERE matchedSkills = SIZE($skills) RETURN DISTINCT c.name, c.content
MatchedSkills(g, c, skills) == {s.name : s \in {t \in SkillsOf(g, c) : t.name \in Range(skills)}}

VariantRows(g, skills) ==
  {Row(c) : c \in {d \in Candidates(g) :
     /\ MatchedSkills(g, d, skills) # {}
     /\ Cardinality(MatchedSkills(g, d, skills)) = Len(skills)}}

VariantResults(g, skills) == Perms(VariantRows(g, skills))

\* skill_query = [s.strip().lower() for s in user_skills_input.split(",") if s.strip()]
RECURSIVE StripLowerNonEmpty(_)
StripLowerNonEmpty(parts) ==
  IF parts = <<>> THEN <<>>
  ELSE (IF Strip(Head(parts)) # <<>> THEN <<Lower(Strip(Head(parts)))>> ELSE <<>>)
         \o StripLowerNonEmpty(Tail(parts))

ParseSkillQuery(input) ==
  IF input = <<>> THEN <<>> ELSE StripLowerNonEmpty(Split(input))

\* What the user can type in the search box.
Inputs ==
  { <<>>, <<"P", "y">>, <<"p", "y", ",", "S", "q">>,
    <<" ", "P", "y", " ", ",", " ", "s", "q">>,
    <<"p", "y", ",", "P", "Y">>, <<",", " ">> }

\* ------------------------------------------------------------ summaries
\* try: summary = llm(...).content.strip()  except: summary = f"Error ...: {e}"
\* then st.write(summary).  The outputs written for one result row.
ErrPrefix == <<"Error generating summary: ">>

SummaryOutcomes ==
  { [ok |-> TRUE, text |-> <<" ", "o", "k", " ">>],
    [ok |-> FALSE, text |-> <<"t", "i", "m", "e", "o", "u", "t">>] }

\* Fault: the exception is not turned into a summary string.
SummaryWritesUncaught(res, outcome) ==
  IF outcome.ok
  THEN <<[name |-> res.name, content |-> res.content, kind |-> "summary",
          text |-> Strip(outcome.text)]>>
  ELSE <<>>

SummaryWrites(res, outcome) ==
  IF outcome.ok
  THEN <<[name |-> res.name, content |-> res.content, kind |-> "summary",
          text |-> Strip(outcome.text)]>>
  ELSE <<[name |-> res.name, content |-> res.content, kind |-> "error",
          text |-> ErrPrefix \o outcome.text]>>

\* ------------------------------------------------------------ the session
FileNames == {"a.pdf", "b.pdf"}

\* The files a user can put in the uploader: the same name with two contents,
\* and the same content under two names.
Files ==
  { [name |-> "a.pdf", text |-> "resume A"],
    [name |-> "a.pdf", text |-> "resume B"],
    [name |-> "b.pdf", text |-> "resume A"] }

\* Fault: the skip test never succeeds.
IsProcessedNever(name, pf) == FALSE

\* `if file.name in st.session_state.processed_files: continue`
IsProcessed(name, pf) == name \in pf

\* What the last iteration of the upload loop did (history, for the properties):
\* kind is skip, fail or ingest; oracle is how the LLM call ended; raw is the
\* parsed object and data what get_structured_data_from_llm returned; existed
\* tells whether a Candidate with the text's hash was already stored; repeat
\* tells whether the iteration before it ingested the same (data, text).
NoEvent ==
  [kind |-> "none", name |-> "", text |-> "", oracle |-> "none",
   raw |-> EmptyDict, data |-> EmptyDict, existed |-> FALSE, repeat |-> FALSE]

Init ==
  /\ variant \in {"main4", "word_search"}
  /\ graph = EmptyGraph
  /\ processed_files = {}
  /\ uploaded_files = <<>>
  /\ pc = "idle"
  /\ idx = 1
  /\ cleared = FALSE
  /\ lastEvent = NoEvent
  /\ user_input = <<>>
  /\ skill_query = <<>>
  /\ results = <<>>
  /\ sidx = 1
  /\ outputs = <<>>

\* Every interaction with a widget reruns the script from the top.  The run
\* reads the uploader, then the Clear Graph DB button (pressed only in the run
\* its click starts): when pressed the store is wiped and processed_files
\* emptied.  Then the upload loop starts.
StartRun(files, pf, pressed) ==
  /\ pc = "idle"
  /\ uploaded_files' = files
  /\ cleared' = pressed
  /\ graph' = IF pressed THEN clear_neo4j_database(graph) ELSE graph
  /\ processed_files' = IF pressed THEN {} ELSE pf
  /\ pc' = "loop"
  /\ idx' = 1
  /\ lastEvent' = NoEvent
  /\ UNCHANGED <<variant, user_input, skill_query, results, sidx, outputs>>

\* The user adds a file to the uploader widget.
Upload(f) ==
  /\ Len(uploaded_files) < MaxUploaded
  /\ f \notin Range(uploaded_files)
  /\ StartRun(Append(uploaded_files, f), processed_files, FALSE)

\* The user removes a file from the uploader widget.
Remove(i) ==
  /\ i \in 1..Len(uploaded_files)
  /\ StartRun(SubSeq(uploaded_files, 1, i - 1)
                \o SubSeq(uploaded_files, i + 1, Len(uploaded_files)),
              processed_files, FALSE)

\* A new browser session: the uploader is empty and session_state has no
\* processed_files yet, so it is set to the empty set; the store is untouched.
NewSession ==
  /\ processed_files # {} \/ uploaded_files # <<>>
  /\ StartRun(<<>>, {}, FALSE)

\* The user clicks Clear Graph DB.
PressClear ==
  /\ pc = "idle"
  /\ StartRun(uploaded_files, processed_files, TRUE)

\* The user edits the search box (or anything else reruns the script).
Rerun ==
  /\ pc = "idle"
  /\ StartRun(uploaded_files, processed_files, FALSE)

\* One iteration of `for file in uploaded_files`, skipping a processed name.
SkipFile ==
  /\ pc = "loop"
  /\ idx <= Len(uploaded_files)
  /\ IsProcessed(uploaded_files[idx].name, processed_files)
  /\ lastEvent' = [NoEvent EXCEPT !.kind = "skip",
                                  !.name = uploaded_files[idx].name,
                                  !.text = uploaded_files[idx].text]
  /\ idx' = idx + 1
  /\ UNCHANGED <<variant, graph, processed_files, uploaded_files, pc, cleared,
                 user_input, skill_query, results, sidx, outputs>>

\* One iteration of `for file in uploaded_files`: extract, ask the oracle, and
\* persist when the structured data is true.
ProcessFile(resp) ==
  /\ pc = "loop"
  /\ idx <= Len(uploaded_files)
  /\ ~IsProcessed(uploaded_files[idx].name, processed_files)
  /\ LET file == uploaded_files[idx]
         structured_data == get_structured_data_from_llm(variant, resp)
         ev == [kind |-> "fail", name |-> file.name, text |-> file.text,
                oracle |-> resp.kind, raw |-> resp.obj, data |-> structured_data,
                existed |-> \E c \in Candidates(graph) :
                               c.content_hash = get_pdf_hash(file.text),
                repeat |-> /\ lastEvent.kind = "ingest"
                           /\ lastEvent.data = structured_data
                           /\ lastEvent.text = file.text]
     IN IF Truthy(structured_data)
        THEN /\ graph' = add_candidate_to_neo4j(variant, graph, structured_data, file.text)
             /\ processed_files' = processed_files \cup {file.name}
             /\ lastEvent' = [ev EXCEPT !.kind = "ingest"]
        ELSE /\ UNCHANGED <<graph, processed_files>>
             /\ lastEvent' = ev
  /\ idx' = idx + 1
  /\ UNCHANGED <<variant, uploaded_files, pc, cleared, user_input, skill_query,
                 results, sidx, outputs>>

\* The search section: the text box is read, the query runs when it is not empty.
Search(input) ==
  /\ pc = "loop"
  /\ idx > Len(uploaded_files)
  /\ user_input' = input
  /\ skill_query' = IF variant = "main4" THEN <<input>> ELSE ParseSkillQuery(input)
  /\ IF variant = "main4"
     THEN /\ results' \in (IF input # <<>> THEN BaseResults(graph, input) ELSE {<<>>})
          /\ pc' = "done"
     ELSE /\ results' \in (IF skill_query' # <<>>
                           THEN VariantResults(graph, skill_query') ELSE {<<>>})
          /\ pc' = IF results' # <<>> THEN "summ" ELSE "done"
  /\ sidx' = 1
  /\ outputs' = <<>>
  /\ lastEvent' = NoEvent
  /\ UNCHANGED <<variant, graph, processed_files, uploaded_files, idx, cleared>>

\* One iteration of `for res in results` in the variant: the summary call.
Summarize(outcome) ==
  /\ pc = "summ"
  /\ sidx <= Len(results)
  /\ outputs' = outputs \o SummaryWrites(results[sidx], outcome)
  /\ pc' = IF sidx = Len(results) THEN "done" ELSE "summ"
  /\ sidx' = sidx + 1
  /\ UNCHANGED <<variant, graph, processed_files, uploaded_files, idx, cleared,
                 lastEvent, user_input, skill_query, results>>

\* The script run ends; the page waits for the next interaction.
EndRun ==
  /\ pc = "done"
  /\ pc' = "idle"
  /\ idx' = 1
  /\ cleared' = FALSE
  /\ lastEvent' = NoEvent
  /\ user_input' = <<>>
  /\ skill_query' = <<>>
  /\ results' = <<>>
  /\ sidx' = 1
  /\ outputs' = <<>>
  /\ UNCHANGED <<variant, graph, processed_files, uploaded_files>>

Next ==
  \/ \E f \in Files : Upload(f)
  \/ \E i \in 1..MaxUploaded : Remove(i)
  \/ NewSession
  \/ PressClear
  \/ Rerun
  \/ SkipFile
  \/ \E resp \in OracleResponses : ProcessFile(resp)
  \/ \E input \in Inputs : Search(input)
  \/ \E outcome \in SummaryOutcomes : Summarize(outcome)
  \/ EndRun

Spec == Init /\ [][Next]_vars

\* ------------------------------------------------------------ properties
IngestStep == pc = "loop" /\ idx' = idx + 1 /\ lastEvent'.kind = "ingest"

Searched == pc \in {"summ", "done"}

\* The Candidate node holding a resume text.
CandidateOf(g, text) ==
  CHOOSE c \in Candidates(g) : c.content_hash = get_pdf_hash(text)

SkillNames(g, c) == {s.name : s \in SkillsOf(g, c)}

\* Every profile the running script can hand to add_candidate_to_neo4j: what
\* its extractor returns for each oracle response.
Profiles == {get_structured_data_from_llm(variant, r) : r \in OracleResponses}

\* C1: upsert is idempotent.  From every store the upload loop can run on, for
\* every profile P and resume text T, add_candidate_to_neo4j(P, T) applied twice
\* leaves the same nodes (with their properties) and the same edges as applying
\* it once.
C1_UpsertIdempotent ==
  pc = "loop" =>
  \A P \in Profiles : \A T \in Texts :
    LET once == add_candidate_to_neo4j(variant, graph, P, T)
    IN add_candidate_to_neo4j(variant, once, P, T) = once

\* C1 witness: the upload loop has just ingested the same (profile, text) twice
\* in a row (two files with the same content), with items to link.
C1_Witness ==
  /\ lastEvent.kind = "ingest"
  /\ lastEvent.repeat
  /\ Get(lastEvent.data, "skills", <<>>) # <<>>
  /\ graph.edges # {}

\* C2: multi-skill search (variant) is exact set containment.  After a search
\* with a non-empty parsed skill list, repeated names included, the rows are
\* exactly the candidates whose HAS_SKILL neighbours include every name of the
\* list, each once.
C2_ExactContainment ==
  (variant = "word_search" /\ Searched /\ skill_query # <<>>) =>
    /\ Range(results) =
         {Row(c) : c \in {d \in Candidates(graph) :
                            Range(skill_query) \subseteq SkillNames(graph, d)}}
    /\ \A i, j \in 1..Len(results) : results[i] = results[j] => i = j

\* C3: node uniqueness.  In every reachable state no two Candidate nodes share
\* a content_hash and no two nodes of one category share a name; a relationship
\* of a category's type ends at a node of that category, and every item of the
\* profile just ingested has a node of its own category, so one name referenced
\* in two categories is held by two nodes.
C3_NodeUniqueness ==
  /\ \A c1, c2 \in Candidates(graph) : c1.content_hash = c2.content_hash => c1 = c2
  /\ \A n1, n2 \in graph.nodes \ Candidates(graph) :
       (n1.label = n2.label /\ n1.name = n2.name) => n1 = n2
  /\ \A e \in graph.edges : \A i \in 1..Len(Rels) :
       e.rel = Rels[i] =>
         \E n \in graph.nodes : NodeId(n) = e.dst /\ n.label = Labels[i]
  /\ lastEvent.kind = "ingest" =>
       \A i \in 1..Len(Fields) :
         \A k \in 1..Len(Get(lastEvent.data, Fields[i], <<>>)) :
           \E n \in graph.nodes :
             /\ n.label = Labels[i]
             /\ n.name = Norm(variant, Get(lastEvent.data, Fields[i], <<>>)[k])

\* C3 witness: two candidates share one Skill node named py, and the name py
\* is also held by a Project node.
C3_Witness ==
  /\ Cardinality(Candidates(graph)) = 2
  /\ \A c \in Candidates(graph) : py \in SkillNames(graph, c)
  /\ Cardinality({n \in graph.nodes : n.name = py}) = 2
  /\ \E n \in graph.nodes : n.label = "Project" /\ n.name = py

\* C4: a failed extraction leaves the state unchanged.  Whenever the oracle call
\* raises or its response is not JSON, the iteration writes no node and no edge
\* and leaves processed_files as it was, without the file's name, so the next
\* run attempts the file again.
C4_FailedExtractionStep ==
  (pc = "loop" /\ idx' = idx + 1 /\ lastEvent'.oracle \in {"raise", "notjson"}) =>
    /\ graph' = graph
    /\ processed_files' = processed_files
    /\ ~IsProcessed(lastEvent'.name, processed_files')
    /\ lastEvent'.kind = "fail"

C5_MissingFieldsNeverSkip ==
  lastEvent.oracle = "json" =>
    /\ lastEvent.kind = "ingest"
    /\ \E c \in Candidates(graph) :
         /\ c.content = lastEvent.text
         /\ lastEvent.raw.name = <<>> => c.name = Norm(variant, Unknown)

\* C6: full wipe.  In a run whose Clear Graph DB button was pressed (no file
\* was uploaded since), the search returns no candidate.
C6_FullWipe == (cleared /\ Searched) => results = <<>>

\* The names a profile's items get in the store, per category.
ItemNames(data, i) ==
  {Norm(variant, x) : x \in Range(Get(data, Fields[i], <<>>))}

ReingestStep == IngestStep /\ lastEvent'.existed

\* C7 (as stated): re-ingesting identical text is a no-op on the graph.  An
\* ingestion of a text whose Candidate is already stored, whatever profile the
\* oracle returns, leaves every node, property and edge as it was.
C7_ReingestNoOp ==
  [][(variant = "word_search" /\ ReingestStep) => graph' = graph]_vars

\* C7 (amended): re-ingesting identical text creates no second Candidate and
\* keeps content, content_hash, every other node and every edge; the
\* Candidate's name becomes the new profile's name, and the only new edges (and
\* nodes) are those linking it to the new profile's items, so with the same
\* name and no new item the graph is unchanged.
C7_ReingestStep ==
  ReingestStep =>
    LET T == lastEvent'.text
        old == CandidateOf(graph, T)
        new == CandidateOf(graph', T)
    IN /\ Cardinality(Candidates(graph')) = Cardinality(Candidates(graph))
       /\ \A c \in Candidates(graph') : c.content_hash = old.content_hash => c = new
       /\ new = [old EXCEPT !.name = Norm(variant, Get(lastEvent'.data, "name", Unknown))]
       /\ graph.nodes \ {old} \subseteq graph'.nodes
       /\ graph.edges \subseteq graph'.edges
       /\ \A e \in graph'.edges \ graph.edges :
            /\ e.src = NodeId(new)
            /\ \E i \in 1..Len(Rels) :
                 /\ e.rel = Rels[i]
                 /\ \E n \in graph'.nodes :
                      /\ NodeId(n) = e.dst /\ n.label = Labels[i]
                      /\ n.name \in ItemNames(lastEvent'.data, i)
       /\ \A n \in graph'.nodes \ (graph.nodes \cup {new}) :
            \E e \in graph'.edges \ graph.edges : e.dst = NodeId(n)
       /\ (new = old /\ graph'.edges = graph.edges) => graph' = graph

C7_ReingestMerges == [][C7_ReingestStep]_vars

\* C7 witness: the variant has ingested a text whose Candidate was already
\* stored, with a profile that renamed it.
C7_Witness ==
  /\ variant = "word_search"
  /\ lastEvent.kind = "ingest"
  /\ lastEvent.existed
  /\ Cardinality(Candidates(graph)) = 2
  /\ CandidateOf(graph, lastEvent.text).name = Lower(Al)
  /\ py \in SkillNames(graph, CandidateOf(graph, lastEvent.text))

\* The non-empty pieces of the typed text, stripped, in the case typed.
RECURSIVE StripNonEmpty(_)
StripNonEmpty(parts) ==
  IF parts = <<>> THEN <<>>
  ELSE (IF Strip(Head(parts)) # <<>> THEN <<Strip(Head(parts))>> ELSE <<>>)
         \o StripNonEmpty(Tail(parts))

TypedTokens == IF user_input = <<>> THEN {} ELSE Range(StripNonEmpty(Split(user_input)))

NoRepeat(q) == \A i, j \in 1..Len(q) : q[i] = q[j] => i = j

SameLetters(a, b) ==
  /\ Len(a) = Len(b)
  /\ \A i \in 1..Len(a) :
       \/ a[i] = b[i]
       \/ (a[i] \in UpperChars /\ LowerChar(a[i]) = b[i])
       \/ (b[i] \in UpperChars /\ LowerChar(b[i]) = a[i])

\* C8: case normalization (variant).  Every stored name and every skill name
\* sent to the query is lower-case; each skill of the profile just ingested is
\* linked under the same letters; and a search without repeated names returns
\* exactly the candidates that hold, for every typed name, a skill with the same
\* letters, whatever the case typed or extracted.
C8_CaseNormalization ==
  variant = "word_search" =>
    /\ \A n \in graph.nodes : IsLower(n.name)
    /\ \A i \in 1..Len(skill_query) : IsLower(skill_query[i])
    /\ lastEvent.kind = "ingest" =>
         \A x \in Range(Get(lastEvent.raw, "skills", <<>>)) :
           \E s \in SkillsOf(graph, CandidateOf(graph, lastEvent.text)) :
             SameLetters(s.name, x)
    /\ (Searched /\ TypedTokens # {} /\ NoRepeat(skill_query)) =>
         Range(results) =
           {Row(c) : c \in {d \in Candidates(graph) :
              \A t \in TypedTokens :
                \E s \in SkillsOf(graph, d) : SameLetters(s.name, t)}}

\* C8 witness: a search typed with capitals and spaces matched a candidate
\* whose resume listed the skills as Py and Sq.
C8_Witness ==
  /\ variant = "word_search"
  /\ Searched
  /\ user_input = <<" ", "P", "y", " ", ",", " ", "s", "q">>
  /\ Len(results) = 1
  /\ results[1].name = Lower(Al)

\* C9: summary failures are isolated (variant).  While and after the summaries
\* are written, the outputs so far are one per result row already visited, in
\* result order, each the oracle's summary or an error description; at the end
\* every row has its output whatever calls failed; and no summary step changes
\* the store or processed_files.
C9_OutputsAligned ==
  (variant = "word_search" /\ Searched) =>
    /\ Len(outputs) = IF results = <<>> THEN 0 ELSE sidx - 1
    /\ pc = "done" => Len(outputs) = Len(results)
    /\ \A k \in 1..Len(outputs) :
         /\ k <= Len(results)
         /\ outputs[k].name = results[k].name
         /\ outputs[k].content = results[k].content
         /\ outputs[k].kind \in {"summary", "error"}
         /\ outputs[k].kind = "error" =>
              SubSeq(outputs[k].text, 1, Len(ErrPrefix)) = ErrPrefix

C9_SummaryStep ==
  pc = "summ" =>
    /\ graph' = graph
    /\ processed_files' = processed_files
    /\ results' = results
    /\ SubSeq(outputs', 1, Len(outputs)) = outputs

C9_SummaryFailuresIsolated == []C9_OutputsAligned /\ [][C9_SummaryStep]_vars

\* C9 witness: two candidates matched, the first summary call failed and the
\* second succeeded, and both outputs were written.
C9_Witness ==
  /\ pc = "done"
  /\ Len(results) = 2
  /\ Len(outputs) = 2
  /\ outputs[1].kind = "error"
  /\ outputs[2].kind = "summary"

\* C10: skipping is keyed by file name within a session.  A file whose name is
\* in processed_files is skipped with no oracle call and no write, whatever its
\* content; a name enters processed_files only in an iteration that ran
\* add_candidate_to_neo4j for a file of that name; and names leave it only when
\* Clear Graph DB empties it (or the session ends).
C10_SkipStep ==
  /\ (pc = "loop" /\ idx <= Len(uploaded_files)
        /\ uploaded_files[idx].name \in processed_files) =>
       /\ graph' = graph
       /\ processed_files' = processed_files
       /\ lastEvent'.kind = "skip"
       /\ lastEvent'.oracle = "none"
       /\ idx' = idx + 1
  /\ \A n \in processed_files' \ processed_files :
       /\ pc = "loop"
       /\ lastEvent'.kind = "ingest"
       /\ lastEvent'.name = n
       /\ uploaded_files[idx].name = n
       /\ graph' = add_candidate_to_neo4j(variant, graph, lastEvent'.data,
                                          uploaded_files[idx].text)
       /\ \E c \in Candidates(graph') : c.content = uploaded_files[idx].text
  /\ ~(processed_files \subseteq processed_files') =>
       /\ processed_files' = {}
       /\ pc = "idle"
       /\ \/ cleared' /\ graph' = EmptyGraph
          \/ ~cleared' /\ uploaded_files' = <<>> /\ graph' = graph

C10_SkipByFileName == [][C10_SkipStep]_vars

\* C10 witness: a file was skipped for its name although no Candidate holds
\* its content.
C10_Witness ==
  /\ lastEvent.kind = "skip"
  /\ lastEvent.name \in processed_files
  /\ Candidates(graph) # {}
  /\ \A c \in Candidates(graph) : c.content # lastEvent.text

====
